---- MODULE Spec2Model ----
(***************************************************************************)
(* CineVivid: the credit ledger (backend/db/crud.py), the generation-task  *)
(* store and its executors (backend/app.py, backend/celery_tasks.py) and   *)
(* the model cache manager (utils/model_manager.py).                       *)
(*                                                                         *)
(* Eleven specifications share the variables:                              *)
(*   SpecLedger     concurrent deduct_credits / add_credits / create_user  *)
(*   SpecSubmit     concurrent submits                                     *)
(*   SpecAccounts   concurrent deduct_credits / add_credits / submits      *)
(*   SpecTask       submit, the background executors, the Celery task     *)
(*   SpecRead       submit, the background executors, a status request     *)
(*   SpecStatus     submit and a status request                            *)
(*   SpecExecute    submit and the background executors, run fairly        *)
(*   SpecCache      download_model, delete_model, process restart          *)
(*   SpecEvict      download_model, delete_model, cleanup_cache            *)
(*   SpecRecommend  download_model, recommend_models                       *)
(*   SpecAdmission  check_disk_space as a function of its inputs           *)
(***************************************************************************)
EXTENDS Integers, Sequences, FiniteSets, TLC

VARIABLES
    tier,            \* users.tier per user id; "none": no such row
    credits,         \* users.credits per user id (the committed column)
    transactions,    \* credit_transactions, in commit order
    session,         \* one database session per request: its position and its loaded User row
    videos,          \* videos table, keyed by task_id
    next_task,       \* the next fresh uuid4
    bg,              \* position of the background task scheduled for each task_id
    video_generator, \* app.py's lazily loaded global
    observed,        \* per task: the (status, progress) values its record has taken
    videos_db,       \* the list of dicts celery_tasks.py works on
    celery,          \* position and retry count of generate_video_task per task
    model_info,      \* ModelManager.AVAILABLE_MODELS: the mutable ModelInfo fields
    download_locks,  \* ModelManager.download_locks (its keys)
    status_file,     \* download_status.json on disk
    disk,            \* per model: state of its snapshot directory on disk
    free,            \* free space of the cache file system, in KiB
    caller,          \* threads inside download_model
    saw,             \* per caller: the callers it found downloading when it was turned away
    deleter,         \* the thread inside delete_model
    restarts,        \* number of process restarts so far
    adm,             \* SpecAdmission: the inputs and the result of one check_disk_space call
    reader,          \* one GET /status/{task_id} request: its position and its answer
    rec              \* the last recommend_models call: its arguments and its return value

ledgerVars == <<tier, credits, transactions, session>>
taskVars == <<videos, next_task, bg, video_generator, observed, videos_db, celery>>
cacheVars == <<model_info, download_locks, status_file, disk, free, caller, saw, deleter, restarts>>
vars == <<tier, credits, transactions, session, videos, next_task, bg, video_generator,
          observed, videos_db, celery, model_info, download_locks, status_file, disk,
          free, caller, saw, deleter, restarts, adm, reader, rec>>

None == "None"

(***************************************************************************)
(* Bounds                                                                  *)
(***************************************************************************)
NumSessions == 2
MaxRetries == 1
NumCallers == 2
MaxRestarts == 2
MaxDelta == 15

Sessions == 1..NumSessions
TaskIds == 1..NumSessions
UserIds == {1, 2, 3}
Tiers == {"free", "pro", "business", "enterprise"}
\* the amount argument of deduct_credits / add_credits: a float the code does not validate
Amounts == {0 - 400, 50, 300}

(***************************************************************************)
(* Credit ledger: backend/db/crud.py                                       *)
(***************************************************************************)
initial_credits(t) ==
    CASE t = "free" -> 300
      [] t = "pro" -> 1000
      [] t = "business" -> 3000
      [] t = "enterprise" -> 10000
      [] OTHER -> 300

\* get_user: whether the query finds a row (None otherwise)
get_user(user_id) == tier[user_id] # "none"

\* mutant: every transaction is booked on the first user
CreditTransaction_of_first_user(user_id, type, amount, balance_after) ==
    [user_id |-> 1, type |-> type, amount |-> amount, balance_after |-> balance_after]

CreditTransaction(user_id, type, amount, balance_after) ==
    [user_id |-> user_id, type |-> type, amount |-> amount, balance_after |-> balance_after]

\* requests are numbered in the order in which they arrive
arrives(s) == session[s].pc = "idle" /\ \A r \in 1..(s - 1) : session[r].pc # "idle"

IdleSession ==
    [pc |-> "idle", op |-> "none", user_id |-> 0, amount |-> 0, loaded |-> 0,
     result |-> "none", task_id |-> 0]

\* init_database: the admin (enterprise) and the demo (free) user
InitLedger ==
    /\ tier = [u \in UserIds |-> CASE u = 1 -> "enterprise" [] u = 2 -> "free" [] OTHER -> "none"]
    /\ credits = [u \in UserIds |-> CASE u = 1 -> initial_credits("enterprise")
                                      [] u = 2 -> initial_credits("free")
                                      [] OTHER -> 0]
    /\ transactions = <<>>
    /\ session = [s \in Sessions |-> IdleSession]

\* create_user: a row with the tier's initial credits; no transaction is recorded
create_user(u, t) ==
    /\ tier[u] = "none"
    /\ tier' = [tier EXCEPT ![u] = t]
    /\ credits' = [credits EXCEPT ![u] = initial_credits(t)]
    /\ UNCHANGED <<transactions, session>>

\* mutant: the balance is compared with zero, not with the amount
insufficient_ignores_amount(user_id, amount) == ~get_user(user_id) \/ credits[user_id] < 0

\* deduct_credits line 102: the test on the loaded row
insufficient(user_id, amount) == ~get_user(user_id) \/ credits[user_id] < amount

\* deduct_credits lines 101-103: SELECT the user; return False when missing or short
\* (refused: what the caller makes of False)
deduct_load(s, op, user_id, amount, refused) ==
    /\ arrives(s)
    /\ IF insufficient(user_id, amount)
       THEN session' = [session EXCEPT ![s] =
                [@ EXCEPT !.pc = "done", !.op = op, !.user_id = user_id,
                          !.amount = amount, !.result = refused]]
       ELSE session' = [session EXCEPT ![s] =
                [@ EXCEPT !.pc = "loaded", !.op = op, !.user_id = user_id,
                          !.amount = amount, !.loaded = credits[user_id]]]
    /\ UNCHANGED <<tier, credits, transactions>>

\* the value deduct_credits line 105 computes from the loaded attribute
deducted(loaded, amount) == loaded - amount

\* deduct_credits lines 105-118: UPDATE users SET credits = <computed>, INSERT the
\* transaction, COMMIT
deduct_commit(s) ==
    /\ session[s].pc = "loaded"
    /\ session[s].op \in {"deduct", "t2v", "i2v"}
    /\ LET u == session[s].user_id
           bal == deducted(session[s].loaded, session[s].amount)
       IN /\ credits' = [credits EXCEPT ![u] = bal]
          /\ transactions' = Append(transactions,
                 CreditTransaction(u, "usage", 0 - session[s].amount, bal))
          /\ session' = [session EXCEPT ![s] =
                 IF session[s].op = "deduct"
                 THEN [@ EXCEPT !.pc = "done", !.result = "True"]
                 ELSE [@ EXCEPT !.pc = "deducted"]]
    /\ UNCHANGED tier

deduct_credits_begin(s) ==
    \E u \in UserIds, a \in Amounts : deduct_load(s, "deduct", u, a, "False")

\* add_credits lines 124-126
add_credits_begin(s) ==
    \E u \in UserIds, a \in Amounts :
        /\ arrives(s)
        /\ IF ~get_user(u)
           THEN session' = [session EXCEPT ![s] =
                    [@ EXCEPT !.pc = "done", !.op = "add", !.user_id = u,
                              !.amount = a, !.result = "False"]]
           ELSE session' = [session EXCEPT ![s] =
                    [@ EXCEPT !.pc = "loaded", !.op = "add", !.user_id = u,
                              !.amount = a, !.loaded = credits[u]]]
        /\ UNCHANGED <<tier, credits, transactions>>

\* add_credits lines 128-143
add_credits_commit(s) ==
    /\ session[s].pc = "loaded"
    /\ session[s].op = "add"
    /\ LET u == session[s].user_id
           bal == session[s].loaded + session[s].amount
       IN /\ credits' = [credits EXCEPT ![u] = bal]
          /\ transactions' = Append(transactions,
                 CreditTransaction(u, "purchase", session[s].amount, bal))
          /\ session' = [session EXCEPT ![s] = [@ EXCEPT !.pc = "done", !.result = "True"]]
    /\ UNCHANGED tier

(***************************************************************************)
(* Generation tasks: submit (backend/app.py generate_text_to_video and     *)
(* generate_image_to_video)                                                *)
(***************************************************************************)
Kinds == {"t2v", "i2v"}

\* num_frames a client can send: VideoGenerationRequest bounds it to 25..500, the
\* image-to-video form field is unbounded (default 97)
NumFrames(kind) == IF kind = "t2v" THEN {97} ELSE {12, 480}

\* credits per second of video
rate(kind) == IF kind = "t2v" THEN 10 ELSE 15

\* app.py lines 491 and 560: num_frames // 24 * rate
cost_credits(kind, num_frames) == (num_frames \div 24) * rate(kind)

\* the Video row create_video inserts (models.py defaults for what video_data omits)
Video(user_id, kind, num_frames, cost) ==
    [user_id |-> user_id, type |-> kind, num_frames |-> num_frames, status |-> "pending",
     progress |-> 0, error_message |-> None, output_url |-> None, completed_at |-> None,
     cost_credits |-> cost]

InitTask ==
    /\ videos = <<>>
    /\ next_task = 1
    /\ bg = [t \in TaskIds |-> "none"]
    /\ video_generator = None
    /\ observed = [t \in TaskIds |-> <<>>]

\* mutant: the id of the first task is handed out again
uuid4_repeats == IF next_task > 1 THEN 1 ELSE next_task

\* str(uuid.uuid4()): an id no earlier call has returned
uuid4 == next_task

\* generate_*: compute the cost, then deduct_credits up to its return False -> 402
generate_begin(s) ==
    \E u \in UserIds, kind \in Kinds :
        \E num_frames \in NumFrames(kind) :
            /\ get_user(u)
            /\ deduct_load(s, kind, u, cost_credits(kind, num_frames), "402")
            /\ UNCHANGED <<videos, next_task, bg, video_generator, observed>>

\* generate_* after the deduction: uuid4, (image-to-video) store the upload, create_video,
\* add_task. An error here is answered with HTTP 500; nothing undoes the deduction.
generate_create(s) ==
    /\ session[s].pc = "deducted"
    /\ LET task_id == uuid4
           kind == session[s].op
           num_frames == CHOOSE n \in NumFrames(kind) :
                             cost_credits(kind, n) = session[s].amount
       IN /\ next_task' = next_task + 1
          /\ \/ /\ kind = "i2v"       \* storing the uploaded image raises
                /\ session' = [session EXCEPT ![s] = [@ EXCEPT !.pc = "done", !.result = "500"]]
                /\ UNCHANGED <<videos, bg, observed>>
             \/ /\ videos' = videos @@
                       (task_id :> Video(session[s].user_id, kind, num_frames, session[s].amount))
                /\ bg' = [bg EXCEPT ![task_id] = "queued"]
                /\ observed' = [observed EXCEPT ![task_id] = <<<<"pending", 0>>>>]
                /\ session' = [session EXCEPT ![s] =
                       [@ EXCEPT !.pc = "done", !.result = "200", !.task_id = task_id]]
    /\ UNCHANGED <<tier, credits, transactions, video_generator>>

(***************************************************************************)
(* The background executors: process_text_to_video_generation and          *)
(* process_image_to_video_generation (backend/app.py), over crud's         *)
(* update_video_status                                                     *)
(***************************************************************************)
Truthy(x) == x # None /\ x # ""

\* mutant: the progress argument is dropped
update_video_status_keeps_progress(v, status, progress, error_message, output_url) ==
    [v EXCEPT !.status = status,
              !.error_message = IF Truthy(error_message) THEN error_message ELSE @,
              !.output_url = IF Truthy(output_url) THEN output_url ELSE @,
              !.completed_at = IF status = "completed" THEN "utcnow" ELSE @]

\* crud.update_video_status on row v
update_video_status(v, status, progress, error_message, output_url) ==
    [v EXCEPT !.status = status,
              !.progress = progress,
              !.error_message = IF Truthy(error_message) THEN error_message ELSE @,
              !.output_url = IF Truthy(output_url) THEN output_url ELSE @,
              !.completed_at = IF status = "completed" THEN "utcnow" ELSE @]

\* one committed update of task t's row
set_status(t, status, progress, error_message, output_url) ==
    /\ videos' = [videos EXCEPT ![t] =
           update_video_status(@, status, progress, error_message, output_url)]
    /\ observed' = [observed EXCEPT ![t] = Append(@, <<status, progress>>)]

\* process_* never awaits: the event loop runs one background task from its first
\* statement to its last before it starts another
loop_free == \A t \in TaskIds : bg[t] \in {"none", "queued", "done"}

\* mutant: a failed task gives its cost back to the submitting user
executor_ledger_refunds(t) ==
    /\ credits' = IF videos'[t].status = "failed"
                  THEN [credits EXCEPT ![videos[t].user_id] = @ + videos[t].cost_credits]
                  ELSE credits
    /\ UNCHANGED <<tier, transactions, session>>

\* lines 700-782: the executors call update_video_status and the generator only; they
\* make no call on users or credit_transactions
executor_ledger(t) == UNCHANGED ledgerVars

\* lines 706 / 748: "processing", 10
exec_start(t) ==
    /\ bg[t] = "queued"
    /\ loop_free
    /\ set_status(t, "processing", 10, None, None)
    /\ bg' = [bg EXCEPT ![t] = "started"]
    /\ UNCHANGED <<next_task, video_generator>>

\* what VideoGenerator() leaves in the global: an instance whose model is loaded, or one
\* whose __init__ caught the failure of the download or of the load (available False,
\* pipe None; generate_video then answers with a mock video)
Generators == {"VideoGenerator", "VideoGenerator(available=False)"}

\* mutant: without a generator the executor returns and writes nothing
exec_get_generator_returns_silently(t) ==
    /\ bg[t] = "started"
    /\ \/ /\ video_generator = None
          /\ UNCHANGED <<video_generator, videos, observed>>
          /\ bg' = [bg EXCEPT ![t] = "done"]
       \/ /\ \E g \in Generators :
                video_generator' = IF video_generator = None THEN g ELSE video_generator
          /\ set_status(t, "processing", 50, None, None)
          /\ bg' = [bg EXCEPT ![t] = "generating"]
    /\ UNCHANGED next_task

\* lines 711-717 / 753-759: get_video_generator (builds the instance once; None when the
\* constructor raises), then "failed", 0 or "processing", 50
exec_get_generator(t) ==
    /\ bg[t] = "started"
    /\ \/ /\ video_generator = None
          /\ UNCHANGED video_generator
          /\ set_status(t, "failed", 0, "Video generator not available", None)
          /\ bg' = [bg EXCEPT ![t] = "done"]
       \/ /\ \E g \in Generators :
                video_generator' = IF video_generator = None THEN g ELSE video_generator
          /\ set_status(t, "processing", 50, None, None)
          /\ bg' = [bg EXCEPT ![t] = "generating"]
    /\ UNCHANGED next_task

\* what str(e) can be for an exception of the generator
ErrorTexts == {"", "CUDA out of memory"}

\* lines 719-738 / 761-780: generate, move the file, "completed", 100, output_url;
\* on any exception "failed", 0, str(e)
exec_generate(t) ==
    /\ bg[t] = "generating"
    /\ \/ set_status(t, "completed", 100, None, "/videos/video.mp4")
       \/ \E e \in ErrorTexts : set_status(t, "failed", 0, e, None)
    /\ bg' = [bg EXCEPT ![t] = "done"]
    /\ UNCHANGED <<next_task, video_generator>>

(***************************************************************************)
(* backend/app.py: GET /status/{task_id}                                   *)
(***************************************************************************)
\* the response body of a request that was not served
NoBody == [status |-> None, progress |-> 0, result |-> None, error |-> None]

InitRead == reader = [pc |-> "idle", task_id |-> 0, user_id |-> 0, result |-> "none",
                      body |-> NoBody]

\* a client sends GET /status/{task_id}; the request waits for the event loop of the
\* server process to run its handler
status_request ==
    /\ reader.pc = "idle"
    /\ \E t \in TaskIds, u \in UserIds :
          /\ get_user(u)
          /\ reader' = [pc |-> "waiting", task_id |-> t, user_id |-> u, result |-> "none",
                        body |-> NoBody]

\* lines 690-696: the fields of the record that the response carries
TaskStatus(video) ==
    [status |-> video.status, progress |-> video.progress, result |-> video.output_url,
     error |-> video.error_message]

\* mutant: the owner of the record is not compared with the requesting user
get_task_status_any_user ==
    /\ reader.pc = "waiting"
    /\ loop_free
    /\ reader' = IF reader.task_id \notin DOMAIN videos
                 THEN [reader EXCEPT !.pc = "done", !.result = "404"]
                 ELSE [reader EXCEPT !.pc = "done", !.result = "200",
                                     !.body = TaskStatus(videos[reader.task_id])]

\* get_task_status lines 675-697, run by the event loop once it is not inside a
\* process_*_generation coroutine: 404, 403, or the fields of the record
get_task_status ==
    /\ reader.pc = "waiting"
    /\ loop_free
    /\ reader' = IF reader.task_id \notin DOMAIN videos
                 THEN [reader EXCEPT !.pc = "done", !.result = "404"]
                 ELSE IF videos[reader.task_id].user_id # reader.user_id
                 THEN [reader EXCEPT !.pc = "done", !.result = "403"]
                 ELSE [reader EXCEPT !.pc = "done", !.result = "200",
                                     !.body = TaskStatus(videos[reader.task_id])]

(***************************************************************************)
(* backend/celery_tasks.py: generate_video_task over videos_db             *)
(***************************************************************************)
CeleryTaskIds == {"c1"}

\* a task record as the submitting code leaves it in videos_db
videos_db_initial == [status |-> "pending", progress |-> 0, error |-> None, result |-> None]

InitCelery ==
    /\ videos_db = [t \in CeleryTaskIds |-> videos_db_initial]
    /\ celery = [t \in CeleryTaskIds |-> [pc |-> "queued", retries |-> 0]]

\* lines 15-26: find the record, status "processing", progress 10
celery_start(t) ==
    /\ celery[t].pc = "queued"
    /\ videos_db' = [videos_db EXCEPT ![t] = [@ EXCEPT !.status = "processing", !.progress = 10]]
    /\ celery' = [celery EXCEPT ![t] = [@ EXCEPT !.pc = "running"]]

\* line 29 raises NameError (the module never defines get_video_generator); lines
\* 49-56: status "failed", error str(e), then self.retry re-queues the task
celery_fail(t) ==
    /\ celery[t].pc = "running"
    /\ videos_db' = [videos_db EXCEPT ![t] =
           [@ EXCEPT !.status = "failed",
                     !.error = "name 'get_video_generator' is not defined"]]
    /\ celery' = [celery EXCEPT ![t] =
           IF @.retries < MaxRetries
           THEN [pc |-> "queued", retries |-> @.retries + 1]
           ELSE [@ EXCEPT !.pc = "done"]]

(***************************************************************************)
(* utils/model_manager.py: ModelManager                                    *)
(***************************************************************************)
Models == {"Skywork/SkyReels-V2-I2V-1.3B-540P", "Skywork/SkyReels-V2-T2V-14B-540P"}
Callers == 1..NumCallers

\* ModelInfo.file_size_gb of the registry, in tenths of a GB (2.6 and 28.0)
file_size_gb(model_id) == IF model_id = "Skywork/SkyReels-V2-I2V-1.3B-540P" THEN 26 ELSE 280

\* 1024**3 bytes, counted in KiB
KiBPerGiB == 1048576

\* line 236: file_size_gb or 30.0 (an entry without a size, 0 here, gets 30.0)
required_gb(size) == IF size = 0 THEN 300 ELSE size

\* check_disk_space, first component of the result:
\*   free / 1024**3 >= required_gb * 1.2
\* with free in KiB and the size in tenths:  free_kib / 2^20 >= size * 3 / 25
check_disk_space(size, free_kib) ==
    25 * free_kib >= 3 * required_gb(size) * KiBPerGiB

\* the class-level ModelInfo defaults
ModelInfo == [local_path |-> None, is_downloaded |-> FALSE, download_progress |-> 0]

\* the snapshot directory snapshot_download returns for a model
download_path(model_id) == "snapshots"

\* Path(local_path).exists()
path_exists(model_id) == disk[model_id] # "missing"

\* _load_download_status: the fields a fresh ModelManager holds for model_id
load_download_status(model_id) ==
    IF model_id \notin DOMAIN status_file
    THEN ModelInfo
    ELSE LET status == status_file[model_id]
         IN IF status.local_path # None /\ ~path_exists(model_id)
            THEN [ModelInfo EXCEPT !.local_path = None, !.is_downloaded = FALSE]
            ELSE [ModelInfo EXCEPT !.local_path = status.local_path,
                                   !.is_downloaded = status.is_downloaded]

\* _save_download_status: what json.dump writes for the registry in state info
save_download_status(info) == [m \in Models |-> info[m]]

\* self.download_progress: __init__ makes it an empty dict; its only assignment is in
\* progress_hook (line 300), a local function of download_model that is handed to
\* nobody (snapshot_download, lines 311-319, gets no callback), so it stays empty
download_progress == <<>>

\* get_download_progress lines 209-211: self.download_progress.get(model_id, 0.0)
get_download_progress(model_id) ==
    IF model_id \in DOMAIN download_progress THEN download_progress[model_id] ELSE 0

IdleCaller == [pc |-> "idle", model_id |-> None, result |-> "none"]

\* the thread that calls delete_model or cleanup_cache, outside any call: the model
\* and the result of its last delete_model, and the locals of cleanup_cache
IdleDeleter == [pc |-> "idle", model_id |-> None, result |-> "none",
                keep_models |-> {}, todo |-> <<>>, deleted_count |-> 0,
                in_cleanup |-> FALSE]

\* the threads that have set the lock of model_id and not yet left the try block
in_flight(model_id) ==
    {c \in Callers : caller[c].pc = "fetching" /\ caller[c].model_id = model_id}

InitCacheIdle ==
    /\ model_info = [m \in Models |-> ModelInfo]
    /\ download_locks = {}
    /\ status_file = <<>>
    /\ disk = [m \in Models |-> "missing"]
    /\ free = 0
    /\ caller = [c \in Callers |-> IdleCaller]
    /\ saw = [c \in Callers |-> {}]
    /\ deleter = IdleDeleter
    /\ restarts = 0

\* a fresh cache directory on a file system with 4 GiB or 40 GiB free
InitCache ==
    /\ model_info = [m \in Models |-> ModelInfo]
    /\ download_locks = {}
    /\ status_file = <<>>
    /\ disk = [m \in Models |-> "missing"]
    /\ free \in {4 * KiBPerGiB, 40 * KiBPerGiB}
    /\ caller = [c \in Callers |-> IdleCaller]
    /\ saw = [c \in Callers |-> {}]
    /\ deleter = IdleDeleter
    /\ restarts = 0

\* threads enter download_model in id order
enters(c) == caller[c].pc = "idle" /\ \A d \in 1..(c - 1) : caller[d].pc # "idle"

\* download_model lines 265-279: already downloaded -> True; no disk space -> False
download_model_begin(c) ==
    /\ enters(c)
    /\ \E m \in Models :
          caller' = [caller EXCEPT ![c] =
              IF model_info[m].is_downloaded
              THEN [pc |-> "done", model_id |-> m, result |-> "True"]
              ELSE IF ~check_disk_space(file_size_gb(m), free)
              THEN [pc |-> "done", model_id |-> m, result |-> "False"]
              ELSE [pc |-> "admitted", model_id |-> m, result |-> "none"]]
    /\ UNCHANGED <<model_info, download_locks, status_file, disk, free, saw, deleter, restarts>>

\* mutant: one lock for all models
download_model_check_any_lock(c) ==
    /\ caller[c].pc = "admitted"
    /\ LET m == caller[c].model_id
       IN IF download_locks # {}
          THEN /\ caller' = [caller EXCEPT ![c] = [@ EXCEPT !.pc = "done", !.result = "False"]]
               /\ saw' = [saw EXCEPT ![c] = in_flight(m)]
          ELSE /\ caller' = [caller EXCEPT ![c] = [@ EXCEPT !.pc = "unlocked"]]
               /\ saw' = saw
    /\ UNCHANGED <<model_info, download_locks, status_file, disk, free, deleter, restarts>>

\* lines 282-284: a download of the model is in progress -> False
download_model_check_lock(c) ==
    /\ caller[c].pc = "admitted"
    /\ LET m == caller[c].model_id
       IN IF m \in download_locks
          THEN /\ caller' = [caller EXCEPT ![c] = [@ EXCEPT !.pc = "done", !.result = "False"]]
               /\ saw' = [saw EXCEPT ![c] = in_flight(m)]
          ELSE /\ caller' = [caller EXCEPT ![c] = [@ EXCEPT !.pc = "unlocked"]]
               /\ saw' = saw
    /\ UNCHANGED <<model_info, download_locks, status_file, disk, free, deleter, restarts>>

\* lines 287-295: the lock entry is created, progress 0.0, the fetch is handed over
download_model_set_lock(c) ==
    /\ caller[c].pc = "unlocked"
    /\ download_locks' = download_locks \cup {caller[c].model_id}
    /\ model_info' = [model_info EXCEPT ![caller[c].model_id].download_progress = 0]
    /\ caller' = [caller EXCEPT ![c] = [@ EXCEPT !.pc = "fetching"]]
    /\ UNCHANGED <<status_file, disk, free, saw, deleter, restarts>>

\* lines 311-319: snapshot_download has created the snapshot directory and some files
snapshot_download_partial(c) ==
    /\ caller[c].pc = "fetching"
    /\ disk[caller[c].model_id] = "missing"
    /\ disk' = [disk EXCEPT ![caller[c].model_id] = "partial"]
    /\ UNCHANGED <<model_info, download_locks, status_file, free, caller, saw, deleter, restarts>>

\* lines 311-330 and 337-340: the snapshot is complete; the fields are set, the
\* status file is written, the lock entry is removed, True is returned
download_model_succeed(c) ==
    /\ caller[c].pc = "fetching"
    /\ LET m == caller[c].model_id
           info == [model_info EXCEPT ![m] = [local_path |-> download_path(m),
                                              is_downloaded |-> TRUE,
                                              download_progress |-> 100]]
       IN /\ disk' = [disk EXCEPT ![m] = "complete"]
          /\ model_info' = info
          /\ status_file' = save_download_status(info)
          /\ download_locks' = download_locks \ {m}
    /\ caller' = [caller EXCEPT ![c] = [@ EXCEPT !.pc = "done", !.result = "True"]]
    /\ UNCHANGED <<free, saw, deleter, restarts>>

\* lines 332-340: snapshot_download raised; progress 0.0, the lock entry is removed,
\* False is returned; nothing is written to the status file
download_model_fail(c) ==
    /\ caller[c].pc = "fetching"
    /\ model_info' = [model_info EXCEPT ![caller[c].model_id].download_progress = 0]
    /\ download_locks' = download_locks \ {caller[c].model_id}
    /\ caller' = [caller EXCEPT ![c] = [@ EXCEPT !.pc = "done", !.result = "False"]]
    /\ UNCHANGED <<status_file, disk, free, saw, deleter, restarts>>

\* the ids delete_model and cleanup_cache are called with: the registry's, and one
\* that get_model_info does not know
UnknownModel == "Skywork/unknown"

ModelIds == Models \cup {UnknownModel}

\* get_model_info(model_id) is None
unknown(m) == m \notin Models

\* is_model_downloaded: the model is known and its is_downloaded field is set
is_model_downloaded(m) == IF unknown(m) THEN FALSE ELSE model_info[m].is_downloaded

\* delete_model returns: to its caller, or to the loop of cleanup_cache, which counts
\* a True and goes on with the next model
delete_model_return(value) ==
    IF deleter.in_cleanup
    THEN [deleter EXCEPT !.pc = "loop", !.result = value, !.todo = Tail(@),
                         !.deleted_count = IF value = "True" THEN @ + 1 ELSE @]
    ELSE [deleter EXCEPT !.pc = "idle", !.result = value]

\* delete_model lines 356-358: the model is unknown or not downloaded -> False
delete_model_refused(m) ==
    /\ deleter.pc = "idle"
    /\ ~is_model_downloaded(m)
    /\ deleter' = [IdleDeleter EXCEPT !.model_id = m, !.result = "False"]
    /\ UNCHANGED <<model_info, download_locks, status_file, disk, free, caller, saw, restarts>>

\* delete_model lines 360-364, entered with model m downloaded: its directory is removed
rmtree(m) ==
    /\ disk' = [disk EXCEPT ![m] =
           IF model_info[m].local_path # None /\ path_exists(m) THEN "missing" ELSE @]
    /\ UNCHANGED <<model_info, download_locks, status_file, free, caller, saw, restarts>>

\* delete_model lines 356-364: the model is downloaded; its directory is removed
delete_model_rmtree(m) ==
    /\ deleter.pc = "idle"
    /\ is_model_downloaded(m)
    /\ rmtree(m)
    /\ deleter' = [IdleDeleter EXCEPT !.pc = "removed", !.model_id = m]

\* delete_model line 367: the entry's local_path is reset; the threads that download
\* other models run between this statement and the next ones
delete_model_unset_path ==
    /\ deleter.pc = "removed"
    /\ model_info' = [model_info EXCEPT ![deleter.model_id].local_path = None]
    /\ deleter' = [deleter EXCEPT !.pc = "path_unset"]
    /\ UNCHANGED <<download_locks, status_file, disk, free, caller, saw, restarts>>

\* the entry of the model being deleted after lines 368-369
delete_model_reset(info) ==
    [info EXCEPT ![deleter.model_id].is_downloaded = FALSE,
                 ![deleter.model_id].download_progress = 0]

\* mutant: the fields are reset and the status file is left as it was
delete_model_record_unsaved ==
    /\ deleter.pc = "path_unset"
    /\ model_info' = delete_model_reset(model_info)
    /\ deleter' = delete_model_return("True")
    /\ UNCHANGED <<download_locks, status_file, disk, free, caller, saw, restarts>>

\* delete_model lines 368-372: the other fields are reset, the status file is written
\* and True is returned
delete_model_record ==
    /\ deleter.pc = "path_unset"
    /\ LET info == delete_model_reset(model_info)
       IN /\ model_info' = info
          /\ status_file' = save_download_status(info)
    /\ deleter' = delete_model_return("True")
    /\ UNCHANGED <<download_locks, disk, free, caller, saw, restarts>>

\* the registry's models in the order AVAILABLE_MODELS.items() yields them
ModelOrder == <<"Skywork/SkyReels-V2-T2V-14B-540P", "Skywork/SkyReels-V2-I2V-1.3B-540P">>

\* the keep_models arguments of cleanup_cache; None becomes the empty list
KeepInputs == SUBSET ModelIds

\* mutant: the keep list is not consulted
evictable_ignores_keep(m) == is_model_downloaded(m)

\* cleanup_cache line 496: the model is not kept and is downloaded
evictable(m) == m \notin deleter.keep_models /\ is_model_downloaded(m)

\* cleanup_cache lines 492-493
cleanup_cache_begin(keep_models) ==
    /\ deleter.pc = "idle"
    /\ deleter' = [IdleDeleter EXCEPT !.pc = "loop", !.keep_models = keep_models,
                                      !.todo = ModelOrder, !.in_cleanup = TRUE]
    /\ UNCHANGED <<model_info, download_locks, status_file, disk, free, caller, saw, restarts>>

\* cleanup_cache lines 495-496: the model is kept or not downloaded; the next one
cleanup_cache_skip ==
    /\ deleter.pc = "loop"
    /\ deleter.todo # <<>>
    /\ ~evictable(Head(deleter.todo))
    /\ deleter' = [deleter EXCEPT !.todo = Tail(@)]
    /\ UNCHANGED <<model_info, download_locks, status_file, disk, free, caller, saw, restarts>>

\* cleanup_cache lines 495-497: delete_model is called and removes the directory
cleanup_cache_delete ==
    /\ deleter.pc = "loop"
    /\ deleter.todo # <<>>
    /\ evictable(Head(deleter.todo))
    /\ rmtree(Head(deleter.todo))
    /\ deleter' = [deleter EXCEPT !.pc = "removed", !.model_id = Head(deleter.todo)]

\* cleanup_cache lines 500-501: the loop is over, deleted_count is returned
cleanup_cache_return ==
    /\ deleter.pc = "loop"
    /\ deleter.todo = <<>>
    /\ deleter' = [deleter EXCEPT !.pc = "idle", !.in_cleanup = FALSE,
                                  !.result = "deleted_count"]
    /\ UNCHANGED <<model_info, download_locks, status_file, disk, free, caller, saw, restarts>>

\* the process stops and is started again: line 595 builds a new ModelManager, whose
\* __init__ empties download_locks and calls _load_download_status; every thread is gone
restart ==
    /\ restarts < MaxRestarts
    /\ restarts' = restarts + 1
    /\ model_info' = [m \in Models |-> load_download_status(m)]
    /\ download_locks' = {}
    /\ caller' = [c \in Callers |-> IdleCaller]
    /\ saw' = [c \in Callers |-> {}]
    /\ deleter' = IdleDeleter
    /\ UNCHANGED <<status_file, disk, free>>

\* ModelInfo.file_size_gb as check_disk_space may find it: the registry's sizes, and
\* unset (the dataclass default)
SizeInputs == {0, 26, 280}

\* the largest whole number of KiB that does not exceed 1.2 times the size
MarginFloor(size) == (3 * required_gb(size) * KiBPerGiB) \div 25

\* free-space readings around the margin, at the size itself and on a full disk
FreeInputs(size) ==
    {MarginFloor(size) + d : d \in (0 - MaxDelta)..MaxDelta}
        \cup {0, (required_gb(size) * KiBPerGiB) \div 10}

InitAdmIdle == adm = [file_size_gb |-> 0, free |-> 0, result |-> "none"]

InitAdmission ==
    \E size \in SizeInputs : \E f \in FreeInputs(size) :
        adm = [file_size_gb |-> size, free |-> f, result |-> "none"]

\* one call of check_disk_space on the inputs drawn
CheckAdmission ==
    /\ adm.result = "none"
    /\ adm' = [adm EXCEPT !.result =
           IF check_disk_space(adm.file_size_gb, adm.free) THEN "ok" ELSE "not-ok"]
    /\ UNCHANGED <<ledgerVars, taskVars, cacheVars, reader, rec>>

\* AVAILABLE_MODELS: the size field of every registry entry
AVAILABLE_MODELS ==
    [model_id \in {"Skywork/SkyReels-V2-T2V-14B-540P", "Skywork/SkyReels-V2-T2V-14B-720P",
                   "Skywork/SkyReels-V2-I2V-14B-540P", "Skywork/SkyReels-V2-I2V-14B-720P",
                   "Skywork/SkyReels-V2-DF-14B-540P", "Skywork/SkyReels-V2-DF-14B-720P"}
        |-> [size |-> "14B"]]
    @@ [model_id \in {"Skywork/SkyReels-V2-I2V-1.3B-540P", "Skywork/SkyReels-V2-DF-1.3B-540P"}
        |-> [size |-> "1.3B"]]

\* the use_case arguments: the four the docstring names and one it does not
UseCases == {"general", "high_quality", "fast", "memory_efficient", "cinematic"}

\* the gpu_memory_gb arguments, in tenths of a GB: not given (None), or a number
GpuInputs ==
    {[given |-> FALSE, gb |-> 0]}
        \cup {[given |-> TRUE, gb |-> g] : g \in {0, 5, 160, 199, 200, 480}}

\* Python's truth value of gpu_memory_gb: None and 0 are false
truth(gpu_memory_gb) == gpu_memory_gb.given /\ gpu_memory_gb.gb # 0

\* recommend_models lines 438-470
recommend_models(use_case, gpu_memory_gb) ==
    IF use_case = "memory_efficient" \/ (truth(gpu_memory_gb) /\ gpu_memory_gb.gb < 200)
    THEN <<"Skywork/SkyReels-V2-I2V-1.3B-540P", "Skywork/SkyReels-V2-DF-1.3B-540P">>
    ELSE IF use_case = "high_quality"
    THEN <<"Skywork/SkyReels-V2-T2V-14B-720P", "Skywork/SkyReels-V2-I2V-14B-720P",
           "Skywork/SkyReels-V2-DF-14B-720P">>
    ELSE IF use_case = "fast"
    THEN <<"Skywork/SkyReels-V2-T2V-14B-540P", "Skywork/SkyReels-V2-I2V-14B-540P",
           "Skywork/SkyReels-V2-DF-14B-540P">>
    ELSE <<"Skywork/SkyReels-V2-T2V-14B-540P", "Skywork/SkyReels-V2-I2V-14B-540P">>

InitRec == rec = [use_case |-> "none", gpu_memory_gb |-> [given |-> FALSE, gb |-> 0],
                  result |-> <<>>]

\* one call of recommend_models
recommend ==
    /\ \E use_case \in UseCases, gpu_memory_gb \in GpuInputs :
          rec' = [use_case |-> use_case, gpu_memory_gb |-> gpu_memory_gb,
                  result |-> recommend_models(use_case, gpu_memory_gb)]
    /\ UNCHANGED <<ledgerVars, taskVars, cacheVars, adm, reader>>

(***************************************************************************)
(* Specifications                                                          *)
(***************************************************************************)
\* the state after startup: init_database has run, nothing has been requested
Init == InitLedger /\ InitTask /\ InitCelery /\ InitCacheIdle /\ InitAdmIdle /\ InitRead /\ InitRec

NextLedger ==
    \/ \E u \in UserIds, t \in Tiers : create_user(u, t) /\ UNCHANGED <<taskVars, cacheVars, adm, reader, rec>>
    \/ \E s \in Sessions : deduct_credits_begin(s) /\ UNCHANGED <<taskVars, cacheVars, adm, reader, rec>>
    \/ \E s \in Sessions : deduct_commit(s) /\ UNCHANGED <<taskVars, cacheVars, adm, reader, rec>>
    \/ \E s \in Sessions : add_credits_begin(s) /\ UNCHANGED <<taskVars, cacheVars, adm, reader, rec>>
    \/ \E s \in Sessions : add_credits_commit(s) /\ UNCHANGED <<taskVars, cacheVars, adm, reader, rec>>

SpecLedger == Init /\ [][NextLedger]_vars

\* concurrent deduct_credits, add_credits and submit requests
NextAccounts ==
    \/ \E s \in Sessions : deduct_credits_begin(s) /\ UNCHANGED <<taskVars, cacheVars, adm, reader, rec>>
    \/ \E s \in Sessions : add_credits_begin(s) /\ UNCHANGED <<taskVars, cacheVars, adm, reader, rec>>
    \/ \E s \in Sessions : add_credits_commit(s) /\ UNCHANGED <<taskVars, cacheVars, adm, reader, rec>>
    \/ \E s \in Sessions : generate_begin(s) /\ UNCHANGED <<videos_db, celery, cacheVars, adm, reader, rec>>
    \/ \E s \in Sessions : deduct_commit(s) /\ UNCHANGED <<taskVars, cacheVars, adm, reader, rec>>
    \/ \E s \in Sessions : generate_create(s) /\ UNCHANGED <<videos_db, celery, cacheVars, adm, reader, rec>>

SpecAccounts == Init /\ [][NextAccounts]_vars

\* no request is between its SELECT and its answer
quiet == \A r \in Sessions : session[r].pc \in {"idle", "done"}

\* concurrent submits (requests served by several server processes)
NextSubmit ==
    \/ \E s \in Sessions : generate_begin(s) /\ UNCHANGED <<videos_db, celery, cacheVars, adm, reader, rec>>
    \/ \E s \in Sessions : deduct_commit(s) /\ UNCHANGED <<taskVars, cacheVars, adm, reader, rec>>
    \/ \E s \in Sessions : generate_create(s) /\ UNCHANGED <<videos_db, celery, cacheVars, adm, reader, rec>>

SpecSubmit == Init /\ [][NextSubmit]_vars

\* submits one after the other, the background executors and the Celery task
NextTask ==
    \/ \E s \in Sessions : quiet /\ generate_begin(s) /\ UNCHANGED <<videos_db, celery, cacheVars, adm, reader, rec>>
    \/ \E s \in Sessions : deduct_commit(s) /\ UNCHANGED <<taskVars, cacheVars, adm, reader, rec>>
    \/ \E s \in Sessions : generate_create(s) /\ UNCHANGED <<videos_db, celery, cacheVars, adm, reader, rec>>
    \/ \E t \in TaskIds : exec_start(t) /\ executor_ledger(t) /\ UNCHANGED <<videos_db, celery, cacheVars, adm, reader, rec>>
    \/ \E t \in TaskIds : exec_get_generator(t) /\ executor_ledger(t) /\ UNCHANGED <<videos_db, celery, cacheVars, adm, reader, rec>>
    \/ \E t \in TaskIds : exec_generate(t) /\ executor_ledger(t) /\ UNCHANGED <<videos_db, celery, cacheVars, adm, reader, rec>>
    \/ \E t \in CeleryTaskIds : celery_start(t) /\ UNCHANGED <<ledgerVars, videos, next_task, bg, video_generator, observed, cacheVars, adm, reader, rec>>
    \/ \E t \in CeleryTaskIds : celery_fail(t) /\ UNCHANGED <<ledgerVars, videos, next_task, bg, video_generator, observed, cacheVars, adm, reader, rec>>

SpecTask == Init /\ [][NextTask]_vars

\* submits one after the other, and a status request, on a server whose event loop
\* has not yet started a background task
NextStatus ==
    \/ \E s \in Sessions : quiet /\ generate_begin(s) /\ UNCHANGED <<videos_db, celery, cacheVars, adm, reader, rec>>
    \/ \E s \in Sessions : deduct_commit(s) /\ UNCHANGED <<taskVars, cacheVars, adm, reader, rec>>
    \/ \E s \in Sessions : generate_create(s) /\ UNCHANGED <<videos_db, celery, cacheVars, adm, reader, rec>>
    \/ status_request /\ UNCHANGED <<ledgerVars, taskVars, cacheVars, adm, rec>>
    \/ get_task_status /\ UNCHANGED <<ledgerVars, taskVars, cacheVars, adm, rec>>

SpecStatus == Init /\ [][NextStatus]_vars

\* submits one after the other and the background executors
NextExecute ==
    \/ \E s \in Sessions : quiet /\ generate_begin(s) /\ UNCHANGED <<videos_db, celery, cacheVars, adm, reader, rec>>
    \/ \E s \in Sessions : deduct_commit(s) /\ UNCHANGED <<taskVars, cacheVars, adm, reader, rec>>
    \/ \E s \in Sessions : generate_create(s) /\ UNCHANGED <<videos_db, celery, cacheVars, adm, reader, rec>>
    \/ \E t \in TaskIds : exec_start(t) /\ executor_ledger(t) /\ UNCHANGED <<videos_db, celery, cacheVars, adm, reader, rec>>
    \/ \E t \in TaskIds : exec_get_generator(t) /\ executor_ledger(t) /\ UNCHANGED <<videos_db, celery, cacheVars, adm, reader, rec>>
    \/ \E t \in TaskIds : exec_generate(t) /\ executor_ledger(t) /\ UNCHANGED <<videos_db, celery, cacheVars, adm, reader, rec>>

\* the event loop runs the background tasks BackgroundTasks has queued: some step of
\* some process_*_generation coroutine
event_loop ==
    \E t \in TaskIds :
        /\ exec_start(t) \/ exec_get_generator(t) \/ exec_generate(t)
        /\ executor_ledger(t)
        /\ UNCHANGED <<videos_db, celery, cacheVars, adm, reader, rec>>

\* the event loop keeps running while a background task is queued or unfinished, and
\* every call an executor makes returns or raises
SpecExecute == Init /\ [][NextExecute]_vars /\ WF_vars(event_loop)

\* concurrent download_model threads, delete_model, and process restarts
NextCache ==
    \/ \E c \in Callers : download_model_begin(c) /\ UNCHANGED <<ledgerVars, taskVars, adm, reader, rec>>
    \/ \E c \in Callers : download_model_check_lock(c) /\ UNCHANGED <<ledgerVars, taskVars, adm, reader, rec>>
    \/ \E c \in Callers : download_model_set_lock(c) /\ UNCHANGED <<ledgerVars, taskVars, adm, reader, rec>>
    \/ \E c \in Callers : snapshot_download_partial(c) /\ UNCHANGED <<ledgerVars, taskVars, adm, reader, rec>>
    \/ \E c \in Callers : download_model_succeed(c) /\ UNCHANGED <<ledgerVars, taskVars, adm, reader, rec>>
    \/ \E c \in Callers : download_model_fail(c) /\ UNCHANGED <<ledgerVars, taskVars, adm, reader, rec>>
    \/ \E m \in Models : delete_model_rmtree(m) /\ UNCHANGED <<ledgerVars, taskVars, adm, reader, rec>>
    \/ delete_model_unset_path /\ UNCHANGED <<ledgerVars, taskVars, adm, reader, rec>>
    \/ delete_model_record /\ UNCHANGED <<ledgerVars, taskVars, adm, reader, rec>>
    \/ restart /\ UNCHANGED <<ledgerVars, taskVars, adm, reader, rec>>

InitCacheManager == InitLedger /\ InitTask /\ InitCelery /\ InitCache /\ InitAdmIdle /\ InitRead /\ InitRec

SpecCache == InitCacheManager /\ [][NextCache]_vars

\* concurrent download_model threads, and a thread that calls delete_model and
\* cleanup_cache
NextEvict ==
    \/ \E c \in Callers : download_model_begin(c) /\ UNCHANGED <<ledgerVars, taskVars, adm, reader, rec>>
    \/ \E c \in Callers : download_model_check_lock(c) /\ UNCHANGED <<ledgerVars, taskVars, adm, reader, rec>>
    \/ \E c \in Callers : download_model_set_lock(c) /\ UNCHANGED <<ledgerVars, taskVars, adm, reader, rec>>
    \/ \E c \in Callers : snapshot_download_partial(c) /\ UNCHANGED <<ledgerVars, taskVars, adm, reader, rec>>
    \/ \E c \in Callers : download_model_succeed(c) /\ UNCHANGED <<ledgerVars, taskVars, adm, reader, rec>>
    \/ \E c \in Callers : download_model_fail(c) /\ UNCHANGED <<ledgerVars, taskVars, adm, reader, rec>>
    \/ \E m \in ModelIds : delete_model_refused(m) /\ UNCHANGED <<ledgerVars, taskVars, adm, reader, rec>>
    \/ \E m \in ModelIds : delete_model_rmtree(m) /\ UNCHANGED <<ledgerVars, taskVars, adm, reader, rec>>
    \/ delete_model_unset_path /\ UNCHANGED <<ledgerVars, taskVars, adm, reader, rec>>
    \/ delete_model_record /\ UNCHANGED <<ledgerVars, taskVars, adm, reader, rec>>
    \/ \E keep_models \in KeepInputs : cleanup_cache_begin(keep_models) /\ UNCHANGED <<ledgerVars, taskVars, adm, reader, rec>>
    \/ cleanup_cache_skip /\ UNCHANGED <<ledgerVars, taskVars, adm, reader, rec>>
    \/ cleanup_cache_delete /\ UNCHANGED <<ledgerVars, taskVars, adm, reader, rec>>
    \/ cleanup_cache_return /\ UNCHANGED <<ledgerVars, taskVars, adm, reader, rec>>

SpecEvict == InitCacheManager /\ [][NextEvict]_vars

\* concurrent download_model threads and calls of recommend_models
NextRecommend ==
    \/ \E c \in Callers : download_model_begin(c) /\ UNCHANGED <<ledgerVars, taskVars, adm, reader, rec>>
    \/ \E c \in Callers : download_model_check_lock(c) /\ UNCHANGED <<ledgerVars, taskVars, adm, reader, rec>>
    \/ \E c \in Callers : download_model_set_lock(c) /\ UNCHANGED <<ledgerVars, taskVars, adm, reader, rec>>
    \/ \E c \in Callers : snapshot_download_partial(c) /\ UNCHANGED <<ledgerVars, taskVars, adm, reader, rec>>
    \/ \E c \in Callers : download_model_succeed(c) /\ UNCHANGED <<ledgerVars, taskVars, adm, reader, rec>>
    \/ \E c \in Callers : download_model_fail(c) /\ UNCHANGED <<ledgerVars, taskVars, adm, reader, rec>>
    \/ recommend

SpecRecommend == InitCacheManager /\ [][NextRecommend]_vars

NextAdmission == CheckAdmission

InitCheckDiskSpace == InitLedger /\ InitTask /\ InitCelery /\ InitCacheIdle /\ InitAdmission /\ InitRead /\ InitRec

SpecAdmission == InitCheckDiskSpace /\ [][NextAdmission]_vars

\* submits one after the other, the background executors, and a status request
NextRead ==
    \/ \E s \in Sessions : quiet /\ generate_begin(s) /\ UNCHANGED <<videos_db, celery, cacheVars, adm, reader, rec>>
    \/ \E s \in Sessions : deduct_commit(s) /\ UNCHANGED <<taskVars, cacheVars, adm, reader, rec>>
    \/ \E s \in Sessions : generate_create(s) /\ UNCHANGED <<videos_db, celery, cacheVars, adm, reader, rec>>
    \/ \E t \in TaskIds : exec_start(t) /\ executor_ledger(t) /\ UNCHANGED <<videos_db, celery, cacheVars, adm, reader, rec>>
    \/ \E t \in TaskIds : exec_get_generator(t) /\ executor_ledger(t) /\ UNCHANGED <<videos_db, celery, cacheVars, adm, reader, rec>>
    \/ \E t \in TaskIds : exec_generate(t) /\ executor_ledger(t) /\ UNCHANGED <<videos_db, celery, cacheVars, adm, reader, rec>>
    \/ status_request /\ UNCHANGED <<ledgerVars, taskVars, cacheVars, adm, rec>>
    \/ get_task_status /\ UNCHANGED <<ledgerVars, taskVars, cacheVars, adm, rec>>

SpecRead == Init /\ [][NextRead]_vars

(***************************************************************************)
(* Claims                                                                  *)
(***************************************************************************)
InitialUsers == {u \in UserIds : u \in {1, 2}}

RECURSIVE SumDeltas(_, _)
SumDeltas(u, i) ==
    IF i = 0 THEN 0
    ELSE SumDeltas(u, i - 1)
         + (IF transactions[i].user_id = u THEN transactions[i].amount ELSE 0)

\* C1: for every user, the balance equals what the account was created with plus the
\* sum of the deltas of all the transactions recorded for that user since.
C1_BalanceIsSumOfDeltas ==
    \A u \in UserIds :
        get_user(u) => credits[u] = initial_credits(tier[u]) + SumDeltas(u, Len(transactions))

\* the deduct_credits calls of amount B against the account u that was created with B
DeductAll(u) ==
    {s \in Sessions : /\ session[s].op = "deduct"
                      /\ session[s].user_id = u
                      /\ session[s].amount = initial_credits(tier[u])}

\* C2: when N >= 2 deduct_credits calls of amount B, each in its own session, have run
\* against an account whose balance was B (and nothing else touched the account),
\* exactly one of them returned True and the others False.
C2_ExactlyOneDeductionSucceeds ==
    \A u \in InitialUsers :
        ( /\ Cardinality(DeductAll(u)) >= 2
          /\ \A s \in Sessions : session[s].user_id = u => s \in DeductAll(u)
          /\ \A s \in DeductAll(u) : session[s].pc = "done" )
        => Cardinality({s \in DeductAll(u) : session[s].result = "True"}) = 1

\* a step in which request s calls deduct_credits for a submit of a user whose
\* balance is below the cost
SubmitsShort(s) ==
    /\ session[s].pc = "idle"
    /\ session'[s].pc # "idle"
    /\ session'[s].op \in Kinds
    /\ credits[session'[s].user_id] < session'[s].amount

\* C7: a submit by a user whose balance is below the computed cost is answered with
\* HTTP 402, and the balance, the transaction log and the task records stay as they were.
C7_InsufficientCreditsNoEffect ==
    [][\A s \in Sessions :
          SubmitsShort(s) =>
              /\ session'[s].pc = "done"
              /\ session'[s].result = "402"
              /\ credits' = credits
              /\ transactions' = transactions
              /\ videos' = videos]_vars

C7_Witness ==
    \E s \in Sessions :
        /\ session[s].result = "402"
        /\ session[s].amount > credits[session[s].user_id]
        /\ videos # <<>>

\* C8: a submit by a user whose balance is at least the cost returns a new task id; its
\* deduction lowers the balance by exactly the cost and records exactly one transaction
\* with delta minus the cost; a pending task record exists for the returned id.
C8_SubmitDeductsAndCreates ==
    [][\A s \in Sessions :
          LET u == session[s].user_id
              cost == session[s].amount
          IN /\ (session[s].pc = "loaded" /\ session'[s].pc = "deducted") =>
                    /\ credits'[u] = credits[u] - cost
                    /\ transactions' = Append(transactions,
                           CreditTransaction(u, "usage", 0 - cost, credits'[u]))
             /\ (session[s].pc = "deducted" /\ session'[s].pc = "done") =>
                    /\ session'[s].result = "200"
                    /\ session'[s].task_id \notin DOMAIN videos
                    /\ session'[s].task_id \in DOMAIN videos'
                    /\ videos'[session'[s].task_id].status = "pending"]_vars

\* the status changes the state machine allows
Allowed(a, b) ==
    \/ a = b
    \/ a = "pending" /\ b = "processing"
    \/ a = "processing" /\ b \in {"completed", "failed"}

\* C9: every status change of a task, under the in-process executors and under the
\* Celery task, is pending -> processing, processing -> completed or processing -> failed.
C9_OnlyAllowedTransitions ==
    [][/\ \A t \in DOMAIN videos : Allowed(videos[t].status, videos'[t].status)
       /\ \A t \in CeleryTaskIds : Allowed(videos_db[t].status, videos_db'[t].status)]_vars

\* C10: a task the in-process executor has completed took exactly the values pending,
\* processing/10, processing/50, completed/100, and its record has a non-empty output
\* location and completed_at set.
C10_SuccessfulRunSequence ==
    \A t \in DOMAIN videos :
        videos[t].status = "completed" =>
            /\ observed[t] = << <<"pending", 0>>, <<"processing", 10>>,
                                <<"processing", 50>>, <<"completed", 100>> >>
            /\ videos[t].progress = 100
            /\ Truthy(videos[t].output_url)
            /\ videos[t].completed_at # None

C10_Witness == \E t \in DOMAIN videos : videos[t].status = "completed" /\ bg[t] = "done"

\* C3: at no time are two downloads of the same model in flight.
C3_OneDownloadInFlight == \A m \in Models : Cardinality(in_flight(m)) <= 1

\* C4: no download_model caller returns False while a caller it found downloading the
\* same model returns True.
C4_SameOutcomeForAllCallers ==
    \A c \in Callers : \A d \in saw[c] :
        ~( /\ caller[c].pc = "done" /\ caller[c].result = "False"
           /\ caller[d].pc = "done" /\ caller[d].result = "True" )

\* C5: when the process stops while a download of a model is in flight and is started
\* again, the reloaded status of that model is not downloaded.
C5_RestartDuringDownloadIsAbsent ==
    [][restarts' = restarts + 1 =>
          \A m \in Models : in_flight(m) # {} => ~model_info'[m].is_downloaded]_vars

C12_ExecutionLeavesLedgerAlone ==
    [][(\E t \in DOMAIN videos : videos'[t] # videos[t]) =>
          credits' = credits /\ transactions' = transactions]_vars

C12_Witness ==
    \E t \in DOMAIN videos :
        /\ videos[t].status = "failed"
        /\ videos[t].cost_credits > 0
        /\ credits[videos[t].user_id]
               = initial_credits(tier[videos[t].user_id]) + SumDeltas(videos[t].user_id, Len(transactions))

\* C13: in every reachable state, under any interleaving of deduct_credits and
\* add_credits calls, every user's balance is greater than or equal to zero.
C13_BalanceNeverNegative == \A u \in UserIds : get_user(u) => credits[u] >= 0

\* C14: a deduct_credits or add_credits call with a zero or negative amount is refused
\* at once and changes neither balance nor transaction log, and no deduct_credits
\* commit ever raises a balance.
C14_NonPositiveAmountRefused ==
    [][\A s \in Sessions :
          /\ ( /\ session[s].pc = "idle"
               /\ session'[s].pc # "idle"
               /\ session'[s].op \in {"deduct", "add"}
               /\ session'[s].amount <= 0 )
             => session'[s].pc = "done" /\ session'[s].result = "False"
          /\ ( /\ session[s].pc = "loaded"
               /\ session'[s].pc = "done"
               /\ session[s].op = "deduct" )
             => credits'[session[s].user_id] <= credits[session[s].user_id]]_vars

\* C15: a deduct_credits call of a positive amount for an enterprise user returns True,
\* whatever was deducted before, and leaves the stored balance unchanged.
C15_EnterpriseIsUnlimited ==
    [][\A s \in Sessions :
          ( /\ session[s].pc # "done"
            /\ session'[s].pc = "done"
            /\ session'[s].op = "deduct"
            /\ session'[s].amount > 0
            /\ tier[session'[s].user_id] = "enterprise" )
          => session'[s].result = "True" /\ credits' = credits]_vars

\* C16: add_credits on an existing account is never refused, and its commit returns True,
\* raises the balance by exactly the amount and appends exactly one transaction of that
\* amount (so a deduction of a followed by a credit of b leaves the initial balance
\* minus a plus b).
C16_CreditAddsExactly ==
    [][\A s \in Sessions :
          /\ ( /\ session[s].pc = "idle"
               /\ session'[s].pc # "idle"
               /\ session'[s].op = "add"
               /\ get_user(session'[s].user_id) )
             => session'[s].pc = "loaded"
          /\ ( /\ session[s].pc = "loaded"
               /\ session'[s].pc = "done"
               /\ session[s].op = "add" )
             => LET u == session[s].user_id
                    b == session[s].amount
                IN /\ session'[s].result = "True"
                   /\ credits'[u] = credits[u] + b
                   /\ transactions' = Append(transactions,
                          CreditTransaction(u, "purchase", b, credits[u] + b))]_vars

\* C17: in every state (delete_model's own window between removing the directory and
\* resetting the entry aside), a model marked is_downloaded has a local_path, and the
\* directory at that path exists and holds all of the model's files.
C17_PresentMeansComplete ==
    \A m \in Models :
        (model_info[m].is_downloaded
            /\ ~(deleter.pc \in {"removed", "path_unset"} /\ deleter.model_id = m))
        => model_info[m].local_path # None /\ disk[m] = "complete"

\* C18: when a download attempt fails, the caller gets False, the lock entry of the
\* model is gone, the model is not marked downloaded, and that is also what the status
\* file on disk says (a restart would load the model as not downloaded).
C18_FailedDownloadLeavesAbsent ==
    [][\A c \in Callers :
          ( /\ caller[c].pc = "fetching"
            /\ caller'[c].pc = "done"
            /\ caller'[c].result = "False" )
          => LET m == caller[c].model_id
             IN /\ m \notin download_locks'
                /\ ~model_info'[m].is_downloaded
                /\ ~(load_download_status(m).is_downloaded)']_vars

\* C19: once the record of a task has status completed or failed, its status, progress,
\* output location and error message never change again, whether the task is run by
\* the in-process executors or by the Celery task and its retries.
C19_TerminalIsImmutable ==
    [][/\ \A t \in DOMAIN videos :
             videos[t].status \in {"completed", "failed"} =>
                 /\ videos'[t].status = videos[t].status
                 /\ videos'[t].progress = videos[t].progress
                 /\ videos'[t].output_url = videos[t].output_url
                 /\ videos'[t].error_message = videos[t].error_message
       /\ \A t \in CeleryTaskIds :
             videos_db[t].status \in {"completed", "failed"} =>
                 videos_db'[t] = videos_db[t]]_vars

status_served == get_task_status /\ UNCHANGED <<ledgerVars, taskVars, cacheVars, adm, rec>>

\* C21: a status request can be answered at any moment, also while a task is executing:
\* whenever a request is waiting, its handler can run.
C21_ReadsNeverWait == reader.pc = "waiting" => ENABLED status_served

\* C22: a download_model call is turned away at the lock test only when its own model
\* has a lock entry; downloads in flight for other models never stop it from going on
\* to set its lock and download.
C22_OtherModelsDoNotBlock ==
    [][\A c \in Callers :
          (caller[c].pc = "admitted" /\ caller'[c].pc = "done")
          => caller[c].model_id \in download_locks]_vars

C22_Witness ==
    \E c, d \in Callers :
        /\ caller[c].pc = "fetching"
        /\ caller[d].pc = "fetching"
        /\ caller[c].model_id # caller[d].model_id
        /\ {caller[c].model_id, caller[d].model_id} \subseteq download_locks

\* a step of the thread that calls delete_model and cleanup_cache
deleter_step == deleter' # deleter /\ restarts' = restarts

evicted_by_step ==
    {m \in Models : model_info[m].is_downloaded /\ ~model_info'[m].is_downloaded}

\* C24: no step of cleanup_cache changes the entry or the directory of a model in
\* keep_models; a delete_model it calls on a model outside keep_models leaves that
\* model not downloaded; deleted_count starts at 0, grows by one with each model the
\* call evicts and by nothing else, and is the value returned
C24_CleanupKeepsAndCounts ==
    [][deleter_step /\ (deleter.in_cleanup \/ deleter'.in_cleanup) =>
         /\ \A m \in Models \cap deleter'.keep_models :
                model_info'[m] = model_info[m] /\ disk'[m] = disk[m]
         /\ deleter.pc \in {"removed", "path_unset"} =>
                deleter.model_id \notin deleter.keep_models
         /\ deleter.pc = "path_unset" =>
                ~model_info'[deleter.model_id].is_downloaded
         /\ deleter'.deleted_count =
                (IF deleter.in_cleanup THEN deleter.deleted_count ELSE 0)
                    + Cardinality(evicted_by_step)
         /\ deleter'.pc = "idle" => deleter'.result = "deleted_count"]_vars

\* cleanup_cache has returned 1 after a call that kept one downloaded model and
\* evicted the other
C24_Witness ==
    /\ deleter.pc = "idle" /\ deleter.result = "deleted_count"
    /\ deleter.deleted_count = 1
    /\ \E k \in deleter.keep_models \cap Models, m \in Models \ deleter.keep_models :
          /\ model_info[k].is_downloaded /\ disk[k] = "complete"
          /\ ~model_info[m].is_downloaded /\ disk[m] = "missing"
          /\ m \in DOMAIN status_file /\ ~status_file[m].is_downloaded

\* the requests whose submit was answered with a task id
Submitted == {s \in Sessions : session[s].op \in Kinds /\ session[s].result = "200"}

\* the submits of user u at cost a that have passed their deduction
Deducting(u, a) ==
    {s \in Sessions : /\ session[s].op \in Kinds
                      /\ session[s].user_id = u /\ session[s].amount = a
                      /\ \/ session[s].pc = "deducted"
                         \/ session[s].pc = "done" /\ session[s].result \in {"200", "500"}}

\* the usage transactions of user u with delta minus a
Deductions(u, a) ==
    {i \in DOMAIN transactions : /\ transactions[i].user_id = u
                                 /\ transactions[i].type = "usage"
                                 /\ transactions[i].amount = 0 - a}

\* C25: the submits that were answered with a task id have pairwise different task
\* ids, each with a task record of its own for the submitting user, and every submit
\* that passed its deduction has a usage transaction of its own: as many transactions
\* with delta minus the cost as submits of that user at that cost
C25_EverySubmitItsOwnTaskAndDeduction ==
    /\ \A s, r \in Submitted : s # r => session[s].task_id # session[r].task_id
    /\ \A s \in Submitted :
          /\ session[s].task_id \in DOMAIN videos
          /\ videos[session[s].task_id].user_id = session[s].user_id
          /\ videos[session[s].task_id].cost_credits = session[s].amount
    /\ Cardinality(DOMAIN videos) = Cardinality(Submitted)
    /\ \A u \in UserIds : \A kind \in Kinds : \A n \in NumFrames(kind) :
          Cardinality(Deductions(u, cost_credits(kind, n)))
              = Cardinality(Deducting(u, cost_credits(kind, n)))

\* two submits of one user with the same parameters were both answered with a task id
C25_Witness ==
    \E s, r \in Submitted :
        /\ s # r
        /\ session[s].user_id = session[r].user_id
        /\ session[s].op = session[r].op
        /\ session[s].amount = session[r].amount
        /\ session[s].amount > 0
        /\ Cardinality(Deductions(session[s].user_id, session[s].amount)) = 2

\* C26: every call of recommend_models leaves the cache entries, the lock table, the
\* status file and the directories as they are and returns a non-empty list of
\* registry ids; for use case memory_efficient, and for every call that passes a GPU
\* memory below 20 GB, every returned model has size 1.3B
C26_RecommendIsPureAndSmallWhenConstrained ==
    [][rec' # rec =>
         LET ids == {rec'.result[i] : i \in DOMAIN rec'.result}
         IN /\ UNCHANGED cacheVars
            /\ rec'.result = recommend_models(rec'.use_case, rec'.gpu_memory_gb)
            /\ ids # {}
            /\ ids \subseteq DOMAIN AVAILABLE_MODELS
            /\ (rec'.use_case = "memory_efficient"
                  \/ (rec'.gpu_memory_gb.given /\ rec'.gpu_memory_gb.gb < 200))
               => \A id \in ids : AVAILABLE_MODELS[id].size = "1.3B"]_vars

\* thread c holds the lock entry of the model it downloads
holds_lock(c) == caller[c].pc = "fetching" /\ caller[c].model_id \in download_locks

\* a step in which thread c calls check_disk_space
checks_admission(c) ==
    /\ caller[c].pc = "idle"
    /\ caller'[c].pc # "idle"
    /\ ~model_info[caller'[c].model_id].is_downloaded

\* C27: a download_model call evaluates check_disk_space only while it holds the
\* model's lock entry; when the check fails the call ends with False, the model has
\* no lock entry of this call, and no directory and no status file was written
C27_AdmissionCheckedUnderLock ==
    [][\A c \in Callers :
          checks_admission(c) =>
              /\ holds_lock(c)
              /\ ~check_disk_space(file_size_gb(caller'[c].model_id), free) =>
                     /\ caller'[c].pc = "done" /\ caller'[c].result = "False"
                     /\ UNCHANGED <<disk, status_file, download_locks>>]_vars

RECURSIVE required_by(_)
\* the sum of required_gb over the threads in S, in tenths of a GB
required_by(S) ==
    IF S = {} THEN 0
    ELSE LET c == CHOOSE x \in S : TRUE
         IN required_gb(file_size_gb(caller[c].model_id)) + required_by(S \ {c})

\* C28: the sizes of the models whose downloads are in flight add up to no more than
\* the free space their admission checks read
C28_InFlightFitsFreeSpace ==
    required_by({c \in Callers : caller[c].pc = "fetching"}) * KiBPerGiB <= 10 * free

\* a step that is not a process restart changes the entry or the directory of model m
changes_entry(m) ==
    /\ restarts' = restarts
    /\ model_info'[m] # model_info[m] \/ disk'[m] # disk[m]

\* C29: the entry and the directory of a model change only in steps of a thread that
\* holds the model's lock entry (before or after the step); delete_model changes
\* neither while a download of the model is in flight
C29_ChangesOnlyUnderLock ==
    [][\A m \in Models :
          changes_entry(m) =>
              /\ \E c \in Callers :
                    /\ caller[c].model_id = m \/ caller'[c].model_id = m
                    /\ caller[c].pc = "fetching" \/ caller'[c].pc = "fetching"
              /\ deleter' = deleter]_vars

\* the record of model m in download_status.json; a file without the record reads
\* as the defaults
persisted(m) == IF m \in DOMAIN status_file THEN status_file[m] ELSE ModelInfo

\* a step in which a download of model m starts, succeeds or fails, or delete_model
\* resets the entry of m
entry_written(m) ==
    \/ \E c \in Callers :
          /\ caller[c].model_id = m
          /\ \/ caller[c].pc = "unlocked" /\ caller'[c].pc = "fetching"
             \/ caller[c].pc = "fetching" /\ caller'[c].pc = "done"
    \/ deleter.pc = "path_unset" /\ deleter.model_id = m /\ deleter'.pc # "path_unset"
          /\ restarts' = restarts

\* C30: after a step in which a download of a model starts, succeeds or fails, or
\* delete_model resets the entry, the model's record in the status file has the
\* local path, the downloaded flag and the progress of the in-memory entry
C30_StatusFileFollowsEntry ==
    [][\A m \in Models : entry_written(m) => persisted(m)' = model_info'[m]]_vars

\* a step in which the executor of task t has called the generator
invokes_generator(t) == bg[t] = "generating" /\ bg'[t] = "done"

\* C31: whenever an executor calls generate_video or generate_video_from_image, the
\* model manager holds a downloaded entry
C31_InferenceOnlyWithPresentModel ==
    [][\A t \in TaskIds :
          invokes_generator(t) => \E m \in Models : model_info[m].is_downloaded]_vars

\* C32: a step that turns a task to failed leaves its progress at the value it had
\* (10 or 50)
C32_FailureKeepsProgress ==
    [][\A t \in DOMAIN videos :
          (videos[t].status # "failed" /\ videos'[t].status = "failed") =>
              /\ videos'[t].progress = videos[t].progress
              /\ videos'[t].progress \in {10, 50}]_vars

\* C33: the stored download progress of a model is within 0..100, does not decrease
\* while a download of the model stays in flight, is 100 only for a downloaded model,
\* and when a download succeeds both the entry's download_progress and the value
\* get_download_progress returns are 100
C33_ProgressMonotoneAndCompleteOnSuccess ==
    [][\A m \in Models :
          /\ model_info'[m].download_progress \in 0..100
          /\ model_info'[m].download_progress = 100 => model_info'[m].is_downloaded
          /\ (\E c \in Callers : c \in in_flight(m) /\ caller'[c].pc = "fetching"
                                   /\ \A d \in in_flight(m) : caller'[d].pc = "fetching") =>
                 model_info'[m].download_progress >= model_info[m].download_progress
          /\ (\E c \in in_flight(m) : caller'[c].pc = "done" /\ caller'[c].result = "True") =>
                 /\ model_info'[m].download_progress = 100
                 /\ get_download_progress(m) = 100]_vars

Terminal == {"completed", "failed"}

\* C34: every task record that submit has created is eventually completed or failed
C34_EveryTaskTerminates ==
    \A t \in TaskIds :
        (t \in DOMAIN videos) ~> (t \in DOMAIN videos /\ videos[t].status \in Terminal)

\* every task that was created has ended, one of them completed and one failed
C34_Witness ==
    /\ Cardinality(DOMAIN videos) >= 2
    /\ \A t \in DOMAIN videos : videos[t].status \in Terminal /\ bg[t] = "done"
    /\ \E t \in DOMAIN videos : videos[t].status = "completed"
    /\ \E t \in DOMAIN videos : videos[t].status = "failed"

\* the task records of user u with cost a
Records(u, a) ==
    {t \in DOMAIN videos : videos[t].user_id = u /\ videos[t].cost_credits = a}

\* C35: once every submit has been answered, each usage transaction belongs to exactly
\* one task record: a user has as many usage transactions of an amount as task records
\* of that cost, so a submit that ended in an error has left no deduction behind
C35_SubmitIsAllOrNothing ==
    quiet =>
        \A u \in UserIds : \A kind \in Kinds : \A n \in NumFrames(kind) :
            Cardinality(Deductions(u, cost_credits(kind, n)))
                = Cardinality(Records(u, cost_credits(kind, n)))

\* C36: the cost of every task record is positive, is the rate of its kind times the
\* whole seconds num_frames \div 24, and is the amount of a usage transaction of the
\* task's owner
C36_CostIsPositiveRateTimesSeconds ==
    \A t \in DOMAIN videos :
        /\ videos[t].cost_credits > 0
        /\ videos[t].cost_credits = rate(videos[t].type) * (videos[t].num_frames \div 24)
        /\ Deductions(videos[t].user_id, videos[t].cost_credits) # {}

\* the positions of user u's transactions in commit order
TransactionsOf(u) == {i \in DOMAIN transactions : transactions[i].user_id = u}

\* i and j are consecutive transactions of user u
Consecutive(u, i, j) ==
    /\ i \in TransactionsOf(u) /\ j \in TransactionsOf(u) /\ i < j
    /\ \A k \in TransactionsOf(u) : ~(i < k /\ k < j)

\* C37: for consecutive transactions of one user, balance_after of the later one is
\* balance_after of the earlier one plus the later one's amount, and balance_after of
\* the user's latest transaction is the user's balance
C37_BalanceAfterChains ==
    \A u \in UserIds :
        /\ \A i, j \in DOMAIN transactions :
              Consecutive(u, i, j) =>
                  transactions[j].balance_after
                      = transactions[i].balance_after + transactions[j].amount
        /\ \A j \in TransactionsOf(u) :
              (\A k \in TransactionsOf(u) : k <= j) =>
                  transactions[j].balance_after = credits[u]

\* C38: a step of a request made for user A leaves the balance, the tier and the
\* transactions of every other user B as they were, and creates or changes no task
\* record owned by B
C38_OtherUsersUntouched ==
    [][\A s \in Sessions :
          session'[s] # session[s] =>
              \A b \in UserIds \ {session'[s].user_id} :
                  /\ credits'[b] = credits[b]
                  /\ tier'[b] = tier[b]
                  /\ {i \in DOMAIN transactions' : transactions'[i].user_id = b}
                         = TransactionsOf(b)
                  /\ \A i \in TransactionsOf(b) : transactions'[i] = transactions[i]
                  /\ \A t \in DOMAIN videos' :
                        videos'[t].user_id = b => (t \in DOMAIN videos /\ videos'[t] = videos[t])]_vars

\* one user has been credited and the other has submitted: each has a transaction of
\* its own, of different types, and the submitter has a task record and a lower balance
C38_Witness ==
    \E i, j \in DOMAIN transactions :
        /\ transactions[i].user_id # transactions[j].user_id
        /\ transactions[i].type = "purchase" /\ transactions[j].type = "usage"
        /\ transactions[j].amount < 0
        /\ \E t \in DOMAIN videos : videos[t].user_id = transactions[j].user_id

\* C39: GET /status/{task_id} is answered with 404 and no task field for an unknown
\* task id, with 403 and no task field for a task of another user, and with the
\* status, progress, result and error of the record for the task's owner; the step
\* changes nothing but the request itself
C39_StatusOnlyForOwner ==
    [][(reader.pc = "waiting" /\ reader'.pc = "done") =>
         /\ UNCHANGED <<ledgerVars, taskVars, cacheVars, adm, rec>>
         /\ reader'.task_id = reader.task_id /\ reader'.user_id = reader.user_id
         /\ IF reader.task_id \notin DOMAIN videos
            THEN reader'.result = "404" /\ reader'.body = NoBody
            ELSE IF videos[reader.task_id].user_id # reader.user_id
            THEN reader'.result = "403" /\ reader'.body = NoBody
            ELSE /\ reader'.result = "200"
                 /\ reader'.body = TaskStatus(videos[reader.task_id])]_vars

\* a user asked for the status of another user's task and got 403 and no task field
C39_Witness ==
    /\ reader.pc = "done" /\ reader.result = "403" /\ reader.body = NoBody
    /\ reader.task_id \in DOMAIN videos
    /\ videos[reader.task_id].user_id # reader.user_id
    /\ \E t \in DOMAIN videos : videos[t].user_id = reader.user_id

\* C40: a restart gives every model whose record in the status file has a local path
\* that still exists the downloaded flag and the local path of that record, and marks
\* no model downloaded whose restored local path is None or does not exist
C40_SaveThenLoadRestores ==
    [][restarts' = restarts + 1 =>
         \A m \in Models :
            /\ (m \in DOMAIN status_file /\ status_file[m].local_path # None
                    /\ path_exists(m)) =>
                   /\ model_info'[m].is_downloaded = status_file[m].is_downloaded
                   /\ model_info'[m].local_path = status_file[m].local_path
            /\ model_info'[m].is_downloaded =>
                   (model_info'[m].local_path # None /\ path_exists(m))]_vars

====
